---- MODULE Spec2Model ----
(***************************************************************************)
(* A model of d2/train_net.py: the optimizer factory of the DETR trainer   *)
(* (Trainer.build_optimizer), the module-level dataset registrations, and  *)
(* the setup / main entry flow.                                            *)
(*                                                                         *)
(* Three specifications share the module:                                  *)
(*   Spec          Trainer.build_optimizer on every bounded model and cfg  *)
(*   SpecRegister  the register_coco_instances calls on the catalog        *)
(*   SpecMain      setup(args) followed by main(args)                      *)
(***************************************************************************)
EXTENDS Integers, Sequences, FiniteSets, TLC

VARIABLES
    \* ---- Trainer.build_optimizer ----
    cfg,            \* the SOLVER part of the frozen configuration
    named,          \* model.named_parameters(recurse=True): <<key, value>> pairs
    requires_grad,  \* value.requires_grad, an attribute of the parameter object
    idx,            \* position of the for loop in named (1-based)
    memo,           \* memo: Set[Parameter]
    params,         \* params: List[Dict]
    pc,             \* position in build_optimizer
    optimizer,      \* the optimizer object, NoOptimizer before it is constructed
    error,          \* the exception raised, NoError if none
    calls,          \* framework calls made from line 115 on, in order
    \* ---- register_coco_instances ----
    catalog,        \* the framework's dataset catalog: name -> entry
    ran,            \* which of the eight module-level calls have run
    \* ---- setup / main ----
    args,           \* parsed command line
    env,            \* what the repository's other code and the process supply
    mpc,            \* position in main / setup
    mcfg,           \* the configuration object being built by setup
    frozen,         \* cfg.freeze() has run
    trace,          \* framework calls made by setup and main, in order
    result          \* what main returns

optVars  == <<cfg, named, requires_grad, idx, memo, params, pc, optimizer, error, calls>>
regVars  == <<catalog, ran>>
mainVars == <<args, env, mpc, mcfg, frozen, trace, result>>
vars     == <<optVars, regVars, mainVars>>

None == "None"

\* the local `optimizer` before line 117 / 121 binds it, and no exception
NoOptimizer == [class |-> None, full_model_clipping |-> FALSE,
                per_group_clipping |-> FALSE, param_groups |-> <<>>, lr |-> 0]
NoError     == [type |-> None, message |-> <<>>]

(***************************************************************************)
(* Bounds of the model.                                                    *)
(***************************************************************************)
NumParams == 2      \* distinct parameter objects a model may hold
NumOther  == 2      \* datasets other code may register besides the eight
MaxOpts   == 2      \* KEY VALUE pairs on the command line

(***************************************************************************)
(* Strings that the code inspects character by character are sequences of  *)
(* one-character strings.                                                  *)
(***************************************************************************)
Needle == <<"b","a","c","k","b","o","n","e">>

KeyBackbone == <<"m",".","b","a","c","k","b","o","n","e",".","w">>
KeyHead     == <<"h","e","a","d",".","w">>
KeyBackbon  == <<"b","a","c","k","b","o","n",".","e">>
Keys        == {KeyBackbone, KeyHead, KeyBackbon}

Parameters == 1..NumParams

\* key.startswith(needle): what line 94 would test if it looked at the start only
StartsWith(needle, key) ==
    /\ Len(key) >= Len(needle)
    /\ SubSeq(key, 1, Len(needle)) = needle

\* Python's `needle in key` on strings
Contains(needle, key) ==
    \E s \in 0..(Len(key) - Len(needle)) :
        SubSeq(key, s + 1, s + Len(needle)) = needle

(***************************************************************************)
(* The inputs of build_optimizer.                                          *)
(***************************************************************************)
BaseLrs        == {1, 2}
Multipliers    == {1, 3}
WeightDecays   == {1}
OptimizerTypes == {"SGD", "ADAMW", "sgd"}
ClipTypes      == {"full_model", "norm"}
ClipValues     == {0 - 1, 0, 1}

Configs ==
    [BASE_LR : BaseLrs, BACKBONE_MULTIPLIER : Multipliers,
     WEIGHT_DECAY : WeightDecays, OPTIMIZER : OptimizerTypes,
     CLIP_ENABLED : BOOLEAN, CLIP_TYPE : ClipTypes, CLIP_VALUE : ClipValues]

\* named_parameters yields every name once; one parameter object may be
\* yielded under several names.
RECURSIVE NamedOver(_)
NamedOver(ks) ==
    {<<>>} \cup
    UNION { { <<<<k, v>>>> \o rest : v \in Parameters, rest \in NamedOver(ks \ {k}) }
            : k \in ks }

(***************************************************************************)
(* Trainer.build_optimizer, lines 83-96: the loop over named parameters.   *)
(***************************************************************************)
Key(j)   == named[j][1]
Value(j) == named[j][2]

\* the loop without the test of line 86
TrainableAlways(value) == TRUE

\* line 86
Trainable(value) == requires_grad[value]

\* the loop without line 91
MemoForget(m, value) == m

\* line 91
MemoAdd(m, value) == m \cup {value}

\* lines 92, 94-95
GroupLr(key) ==
    IF Contains(Needle, key)
    THEN cfg.BASE_LR * cfg.BACKBONE_MULTIPLIER
    ELSE cfg.BASE_LR

\* line 96: the dict
NewGroup(key, value) ==
    [params |-> <<value>>, lr |-> GroupLr(key), weight_decay |-> cfg.WEIGHT_DECAY]

\* params = [...] + params
PrependGroup(ps, g) == <<g>> \o ps

\* line 96: params += [...]
AddGroup(ps, g) == ps \o <<g>>

InLoop == pc = "loop" /\ idx <= Len(named)

restOpt == <<cfg, named, requires_grad, optimizer, error, calls, regVars, mainVars>>

\* lines 86-87
LoopSkipFrozen ==
    /\ InLoop
    /\ ~Trainable(Value(idx))
    /\ idx' = idx + 1
    /\ UNCHANGED <<memo, params, pc, restOpt>>

\* lines 89-90
LoopSkipSeen ==
    /\ InLoop
    /\ Trainable(Value(idx))
    /\ Value(idx) \in memo
    /\ idx' = idx + 1
    /\ UNCHANGED <<memo, params, pc, restOpt>>

\* lines 91-96
LoopAdd ==
    /\ InLoop
    /\ Trainable(Value(idx))
    /\ Value(idx) \notin memo
    /\ memo' = MemoAdd(memo, Value(idx))
    /\ params' = AddGroup(params, NewGroup(Key(idx), Value(idx)))
    /\ idx' = idx + 1
    /\ UNCHANGED <<pc, restOpt>>

LoopEnd ==
    /\ pc = "loop"
    /\ idx > Len(named)
    /\ pc' = "select"
    /\ UNCHANGED <<idx, memo, params, restOpt>>

(***************************************************************************)
(* Lines 98-128: the clipping wrapper and the choice of the optimizer.     *)
(***************************************************************************)
\* enable without the test of line 104
EnableIgnoringValue ==
    /\ cfg.CLIP_ENABLED
    /\ cfg.CLIP_TYPE = "full_model"

\* lines 101-105
Enable ==
    /\ cfg.CLIP_ENABLED
    /\ cfg.CLIP_TYPE = "full_model"
    /\ cfg.CLIP_VALUE > 0

\* line 113: the class handed back, as [base class, wrapped or not]
maybe_add_full_model_gradient_clipping(optim) ==
    [base |-> optim, full_model_clipping |-> Enable]

\* the dispatch with a case-insensitive "SGD"
OptimizerClassAnyCase(optimizer_type) ==
    IF optimizer_type \in {"SGD", "sgd"} THEN "torch.optim.SGD"
    ELSE IF optimizer_type = "ADAMW" THEN "torch.optim.AdamW"
    ELSE None

\* lines 116-125: the class chosen for the type string, None for the else branch
OptimizerClass(optimizer_type) ==
    IF optimizer_type = "SGD" THEN "torch.optim.SGD"
    ELSE IF optimizer_type = "ADAMW" THEN "torch.optim.AdamW"
    ELSE None

\* line 125
ErrorOf(optimizer_type) ==
    [type |-> "NotImplementedError", message |-> <<"no optimizer type ", optimizer_type>>]

\* line 127 without the test of line 126
PerGroupAlways == TRUE

\* line 126
PerGroupWanted == ~(cfg.CLIP_TYPE = "full_model")

\* lines 116-123
Construct ==
    /\ pc = "select"
    /\ OptimizerClass(cfg.OPTIMIZER) # None
    /\ LET cls == maybe_add_full_model_gradient_clipping(OptimizerClass(cfg.OPTIMIZER))
       IN  /\ optimizer' = [class |-> cls.base,
                            full_model_clipping |-> cls.full_model_clipping,
                            per_group_clipping |-> FALSE,
                            param_groups |-> params,
                            lr |-> cfg.BASE_LR]
           /\ calls' = calls \o <<cls.base>>
    /\ pc' = "clip"
    /\ UNCHANGED <<cfg, named, requires_grad, idx, memo, params, error, regVars, mainVars>>

\* lines 124-125
RaiseNotImplemented ==
    /\ pc = "select"
    /\ OptimizerClass(cfg.OPTIMIZER) = None
    /\ error' = ErrorOf(cfg.OPTIMIZER)
    /\ pc' = "raised"
    /\ UNCHANGED <<cfg, named, requires_grad, idx, memo, params, optimizer, calls,
                   regVars, mainVars>>

\* lines 126-127
PerGroupClip ==
    /\ pc = "clip"
    /\ PerGroupWanted
    /\ optimizer' = [optimizer EXCEPT !.per_group_clipping = TRUE]
    /\ calls' = calls \o <<"maybe_add_gradient_clipping">>
    /\ pc' = "done"
    /\ UNCHANGED <<cfg, named, requires_grad, idx, memo, params, error, regVars, mainVars>>

\* line 126 false, line 128
NoPerGroupClip ==
    /\ pc = "clip"
    /\ ~PerGroupWanted
    /\ pc' = "done"
    /\ UNCHANGED <<cfg, named, requires_grad, idx, memo, params, optimizer, error, calls,
                   regVars, mainVars>>

IdleOpt ==
    /\ cfg = None /\ named = <<>> /\ requires_grad = <<>> /\ idx = 1
    /\ memo = {} /\ params = <<>> /\ pc = "idle"
    /\ optimizer = NoOptimizer /\ error = NoError /\ calls = <<>>

IdleReg == catalog = <<>> /\ ran = {}

IdleMain ==
    /\ args = None /\ env = None /\ mpc = "idle" /\ mcfg = None /\ frozen = FALSE
    /\ trace = <<>> /\ result = None

Init ==
    /\ cfg \in Configs
    /\ named \in NamedOver(Keys)
    /\ requires_grad \in [Parameters -> BOOLEAN]
    /\ idx = 1
    /\ memo = {}
    /\ params = <<>>
    /\ pc = "loop"
    /\ optimizer = NoOptimizer
    /\ error = NoError
    /\ calls = <<>>
    /\ IdleReg
    /\ IdleMain

Next ==
    \/ LoopSkipFrozen
    \/ LoopSkipSeen
    \/ LoopAdd
    \/ LoopEnd
    \/ Construct
    \/ RaiseNotImplemented
    \/ PerGroupClip
    \/ NoPerGroupClip

Spec == Init /\ [][Next]_vars

(***************************************************************************)
(* Lines 30-53: the module-level dataset registrations.                    *)
(***************************************************************************)
Registrations == <<
    [name |-> "uav_dataset1", metadata |-> {},
     json_file  |-> "uav-detect/cars-only/dataset1/dataset1_x1y1wh.json",
     image_root |-> "uav-detect/cars-only/dataset1/images"],
    [name |-> "uav_dataset2", metadata |-> {},
     json_file  |-> "uav-detect/cars-only/dataset2/dataset2_x1y1wh.json",
     image_root |-> "uav-detect/cars-only/dataset2/images"],
    [name |-> "uav_dataset3", metadata |-> {},
     json_file  |-> "uav-detect/cars-only/dataset3/dataset3_x1y1wh.json",
     image_root |-> "uav-detect/cars-only/dataset3/images"],
    [name |-> "uav_dataset4", metadata |-> {},
     json_file  |-> "uav-detect/cars-only/dataset4/dataset4_x1y1wh.json",
     image_root |-> "uav-detect/cars-only/dataset4/images"],
    [name |-> "shapes_train", metadata |-> {},
     json_file  |-> "shapes/Shapes_7500imgs_mod4/shapes.json",
     image_root |-> "shapes/Shapes_7500imgs_mod4/images"],
    [name |-> "shapes_val_no_gauss", metadata |-> {},
     json_file  |-> "shapes/Shapes_1500imgs/no_gauss/shapes.json",
     image_root |-> "shapes/Shapes_1500imgs/no_gauss/images"],
    [name |-> "aerial_train_cars", metadata |-> {},
     json_file  |-> "aerial-cars/cars-only/labels/aerial_train.json",
     image_root |-> "aerial-cars/cars-only/images/train"],
    [name |-> "aerial_valid_cars", metadata |-> {},
     json_file  |-> "aerial-cars/cars-only/labels/aerial_valid.json",
     image_root |-> "aerial-cars/cars-only/images/valid"] >>

\* Datasets registered by other code, under other names; their paths may
\* repeat a path of the eight.
OtherNames == { ToString(n) : n \in 1..NumOther }
OtherPaths == { "uav-detect/cars-only/dataset1/images", "coco/val2017" }
OtherMeta  == { {}, {"thing_classes"} }

Entry(metadata, json_file, image_root) ==
    [json_file |-> json_file, image_root |-> image_root, metadata |-> metadata]

\* a catalog that keeps the latest registration only
register_clobbering(cat, name, metadata, json_file, image_root) ==
    [n \in {name} |-> Entry(metadata, json_file, image_root)]

\* register_coco_instances(name, metadata, json_file, image_root) on the catalog
register_coco_instances(cat, name, metadata, json_file, image_root) ==
    [n \in DOMAIN cat \cup {name} |->
        IF n = name THEN Entry(metadata, json_file, image_root) ELSE cat[n]]

\* one of the calls of lines 30-53
RegisterFixed(r) ==
    /\ r \notin ran
    /\ Registrations[r].name \notin DOMAIN catalog
    /\ catalog' = register_coco_instances(catalog, Registrations[r].name,
                      Registrations[r].metadata, Registrations[r].json_file,
                      Registrations[r].image_root)
    /\ ran' = ran \cup {r}
    /\ UNCHANGED <<optVars, mainVars>>

\* a registration made elsewhere in the process
RegisterOther(name, metadata, json_file, image_root) ==
    /\ name \notin DOMAIN catalog
    /\ catalog' = register_coco_instances(catalog, name, metadata, json_file, image_root)
    /\ UNCHANGED <<ran, optVars, mainVars>>

InitRegister ==
    /\ catalog = <<>>
    /\ ran = {}
    /\ IdleOpt
    /\ IdleMain

NextRegister ==
    \/ \E r \in 1..Len(Registrations) : RegisterFixed(r)
    \/ \E name \in OtherNames, metadata \in OtherMeta,
          json_file \in OtherPaths, image_root \in OtherPaths :
          RegisterOther(name, metadata, json_file, image_root)

SpecRegister == InitRegister /\ [][NextRegister]_vars

(***************************************************************************)
(* Lines 131-141: setup.  A configuration is a function from keys to       *)
(* values; a layer sets some of the keys.                                  *)
(***************************************************************************)
CfgKeys   == {"MODEL.WEIGHTS", "OUTPUT_DIR"}
CfgValues == {"v1", "v2"}
Layers    == UNION { [S -> CfgValues] : S \in SUBSET CfgKeys }

\* args.opts: a flat list KEY VALUE KEY VALUE ...
RECURSIVE OptsOfLen(_)
OptsOfLen(n) ==
    IF n = 0 THEN {<<>>}
    ELSE { <<k, v>> \o rest : k \in CfgKeys, v \in CfgValues, rest \in OptsOfLen(n - 1) }

Opts == UNION { OptsOfLen(n) : n \in 0..MaxOpts }

get_cfg == [k \in CfgKeys |-> "default"]

\* a merge in which the value already present wins
MergeKeepingOld(c, layer) ==
    [k \in DOMAIN c \cup DOMAIN layer |-> IF k \in DOMAIN c THEN c[k] ELSE layer[k]]

\* the keys a layer sets take the layer's values
Merge(c, layer) ==
    [k \in DOMAIN c \cup DOMAIN layer |-> IF k \in DOMAIN layer THEN layer[k] ELSE c[k]]

\* cfg.merge_from_list: the pairs are applied from left to right
RECURSIVE merge_from_list(_, _)
merge_from_list(c, lst) ==
    IF Len(lst) < 2 THEN c
    ELSE merge_from_list([c EXCEPT ![lst[1]] = lst[2]], SubSeq(lst, 3, Len(lst)))

MainStep(at, to, call) ==
    /\ mpc = at
    /\ mpc' = to
    /\ trace' = Append(trace, call)

\* line 135
GetCfg ==
    /\ MainStep("get_cfg", "add_detr_config", "get_cfg")
    /\ mcfg' = get_cfg
    /\ UNCHANGED <<args, env, frozen, result, optVars, regVars>>

\* line 136
AddDetrConfig ==
    /\ MainStep("add_detr_config", "merge_from_file", "add_detr_config")
    /\ mcfg' = Merge(mcfg, env.add_detr_config)
    /\ UNCHANGED <<args, env, frozen, result, optVars, regVars>>

\* line 137
MergeFromFile ==
    /\ MainStep("merge_from_file", "merge_from_list", "merge_from_file")
    /\ mcfg' = Merge(mcfg, args.config_file)
    /\ UNCHANGED <<args, env, frozen, result, optVars, regVars>>

\* line 138
MergeFromList ==
    /\ MainStep("merge_from_list", "freeze", "merge_from_list")
    /\ mcfg' = merge_from_list(mcfg, args.opts)
    /\ UNCHANGED <<args, env, frozen, result, optVars, regVars>>

\* line 139
Freeze ==
    /\ MainStep("freeze", "default_setup", "freeze")
    /\ frozen' = TRUE
    /\ UNCHANGED <<args, env, mcfg, result, optVars, regVars>>

\* lines 140-141 and 145-147
DefaultSetup ==
    /\ MainStep("default_setup", "branch", "default_setup")
    /\ UNCHANGED <<args, env, mcfg, frozen, result, optVars, regVars>>

(***************************************************************************)
(* Lines 144-159: main.                                                    *)
(***************************************************************************)
restMain == <<args, env, mcfg, frozen, optVars, regVars>>

\* line 149
Branch ==
    /\ mpc = "branch"
    /\ mpc' = IF args.eval_only THEN "build_model" ELSE "Trainer"
    /\ UNCHANGED <<trace, result, restMain>>

\* line 150
BuildModel ==
    /\ MainStep("build_model", "load", "Trainer.build_model")
    /\ UNCHANGED <<result, restMain>>

\* line 151
LoadWeights ==
    /\ MainStep("load", "test", "DetectionCheckpointer.resume_or_load")
    /\ UNCHANGED <<result, restMain>>

\* line 152
Test ==
    /\ MainStep("test", "is_main", "Trainer.test")
    /\ result' = "res"
    /\ UNCHANGED restMain

\* line 154 without the test of line 153
VerifyAlways == TRUE

\* line 153
is_main_process == env.is_main_process

\* lines 153-154
Verify ==
    /\ mpc = "is_main"
    /\ is_main_process
    /\ mpc' = "return"
    /\ trace' = Append(trace, "verify_results")
    /\ UNCHANGED <<result, restMain>>

\* line 153 false
SkipVerify ==
    /\ mpc = "is_main"
    /\ ~is_main_process
    /\ mpc' = "return"
    /\ UNCHANGED <<trace, result, restMain>>

\* line 157
NewTrainer ==
    /\ MainStep("Trainer", "resume", "Trainer")
    /\ UNCHANGED <<result, restMain>>

\* line 158
TrainerResume ==
    /\ MainStep("resume", "train", "trainer.resume_or_load")
    /\ UNCHANGED <<result, restMain>>

\* line 159
Train ==
    /\ MainStep("train", "done", "trainer.train")
    /\ result' = "train_result"
    /\ UNCHANGED restMain

\* line 155
Return ==
    /\ mpc = "return"
    /\ mpc' = "done"
    /\ UNCHANGED <<trace, result, restMain>>

\* a framework call that reads files or runs the model raises; nothing in
\* setup or main catches it
CanRaise ==
    {"merge_from_file", "merge_from_list", "default_setup", "build_model", "load",
     "test", "Trainer", "resume", "train"}

Raise ==
    /\ mpc \in CanRaise
    /\ mpc' = "raised"
    /\ UNCHANGED <<trace, result, restMain>>

InitMain ==
    /\ args \in [config_file : Layers, opts : Opts, eval_only : BOOLEAN, resume : BOOLEAN]
    /\ env \in [add_detr_config : Layers, is_main_process : BOOLEAN]
    /\ mpc = "get_cfg"
    /\ mcfg = None
    /\ frozen = FALSE
    /\ trace = <<>>
    /\ result = None
    /\ IdleOpt
    /\ IdleReg

NextMain ==
    \/ GetCfg
    \/ AddDetrConfig
    \/ MergeFromFile
    \/ MergeFromList
    \/ Freeze
    \/ DefaultSetup
    \/ Branch
    \/ BuildModel
    \/ LoadWeights
    \/ Test
    \/ Verify
    \/ SkipVerify
    \/ NewTrainer
    \/ TrainerResume
    \/ Train
    \/ Return
    \/ Raise

SpecMain == InitMain /\ [][NextMain]_vars

(***************************************************************************)
(* Properties of Trainer.build_optimizer (specification Spec).             *)
(***************************************************************************)
\* the entries of named the loop has passed
Passed == 1..(idx - 1)

\* the passed entries at which a trainable parameter object occurs first
FirstSeen == { j \in Passed : /\ requires_grad[Value(j)]
                              /\ \A k \in 1..(j - 1) : Value(k) # Value(j) }

NthFirstSeen(n) == CHOOSE j \in FirstSeen : Cardinality({k \in FirstSeen : k <= j}) = n

\* key = u \o "backbone" \o v for some u, v
HasBackbone(key) ==
    \E a \in 0..Len(key), b \in 0..Len(key) :
        /\ a + Len(Needle) + b = Len(key)
        /\ key = SubSeq(key, 1, a) \o Needle \o SubSeq(key, Len(key) - b + 1, Len(key))

NamesOf(p) == { Key(j) : j \in { k \in 1..Len(named) : Value(k) = p } }

FirstNameOf(p) ==
    Key(CHOOSE j \in 1..Len(named) :
            /\ Value(j) = p
            /\ \A k \in 1..(j - 1) : Value(k) # p)

GroupMembers(n) == { params[n].params[m] : m \in 1..Len(params[n].params) }

Supported == {"SGD", "ADAMW"}

\* C1: no parameter object is in two emitted groups, and there are as many
\* groups as distinct trainable parameter objects the loop has passed, also
\* when an object is yielded under several names.
C1_OneGroupPerParameter ==
    /\ \A m, n \in 1..Len(params) : m # n => GroupMembers(m) \cap GroupMembers(n) = {}
    /\ Len(params) =
         Cardinality({ Value(j) : j \in { k \in Passed : requires_grad[Value(k)] } })

C1_Witness ==
    /\ pc = "done"
    /\ Len(params) = 2
    /\ \E j, k \in 1..Len(named) :
          j < k /\ Value(j) = Value(k) /\ requires_grad[Value(j)]

\* C2 as stated: a group's learning rate is base_lr * backbone_multiplier when a
\* name of its parameter contains "backbone" and base_lr otherwise, whatever the
\* names one parameter object is reachable under.
C2_AsClaimed ==
    pc # "loop" =>
        \A n \in 1..Len(params) :
            params[n].lr =
                IF \E key \in NamesOf(params[n].params[1]) : HasBackbone(key)
                THEN cfg.BASE_LR * cfg.BACKBONE_MULTIPLIER
                ELSE cfg.BASE_LR

\* C2 amended: the learning rate of a group is decided by the first name its
\* parameter is yielded under: base_lr * backbone_multiplier when that name
\* contains "backbone", base_lr otherwise.
C2_LrByFirstName ==
    \A n \in 1..Len(params) :
        params[n].lr =
            IF HasBackbone(FirstNameOf(params[n].params[1]))
            THEN cfg.BASE_LR * cfg.BACKBONE_MULTIPLIER
            ELSE cfg.BASE_LR

C2_Witness ==
    /\ pc = "done"
    /\ cfg.BACKBONE_MULTIPLIER # 1
    /\ \E n \in 1..Len(params) :
          /\ FirstNameOf(params[n].params[1]) = KeyBackbone
          /\ KeyHead \in NamesOf(params[n].params[1])
    /\ \E n \in 1..Len(params) : FirstNameOf(params[n].params[1]) = KeyBackbon

FrozenInMemoOrGroups ==
    \/ \E p \in memo : ~requires_grad[p]
    \/ \E n \in 1..Len(params) : \E p \in GroupMembers(n) : ~requires_grad[p]

\* C3: a parameter with requires_grad false is in no group and is never put in
\* memo, and the step that meets it leaves memo and the groups as they were.
C3_FrozenSkipped ==
    /\ [](~FrozenInMemoOrGroups)
    /\ [][(InLoop /\ ~requires_grad[Value(idx)]) => (memo' = memo /\ params' = params)]_vars

C3_Witness ==
    /\ pc = "done"
    /\ Len(params) = 1
    /\ \E j, k \in 1..Len(named) :
          j < k /\ ~requires_grad[Value(j)] /\ requires_grad[Value(k)]
    /\ \E j, k \in 1..Len(named) :
          j < k /\ ~requires_grad[Value(j)] /\ Value(j) = Value(k)

\* C4: an optimizer type other than "SGD" and "ADAMW" ends in a
\* NotImplementedError whose message holds that very string, with no optimizer
\* constructed and no clipping applied; "SGD" and "ADAMW" raise no such error.
C4_UnsupportedTypeRaises ==
    /\ pc \in {"clip", "done"} =>
          cfg.OPTIMIZER \in Supported /\ error = NoError /\ optimizer.class # None
    /\ pc = "raised" =>
          /\ cfg.OPTIMIZER \notin Supported
          /\ error = [type |-> "NotImplementedError",
                      message |-> <<"no optimizer type ", cfg.OPTIMIZER>>]
          /\ optimizer = NoOptimizer
          /\ calls = <<>>
    /\ error # NoError => pc = "raised"

C4_Witness ==
    /\ pc = "raised"
    /\ cfg.OPTIMIZER = "sgd"
    /\ Len(params) > 0
    /\ error.message[2] = "sgd"

\* C5: with clipping enabled, type "full_model" and a positive value the
\* returned optimizer has the full-model wrapper and not the per-group one; with
\* a type other than "full_model" it has the per-group one and not the
\* full-model one; no optimizer ever has both.
C5_NeverBothClippings ==
    /\ ~(optimizer.full_model_clipping /\ optimizer.per_group_clipping)
    /\ pc = "done" =>
          /\ (cfg.CLIP_ENABLED /\ cfg.CLIP_TYPE = "full_model" /\ cfg.CLIP_VALUE > 0)
                => (optimizer.full_model_clipping /\ ~optimizer.per_group_clipping)
          /\ cfg.CLIP_TYPE # "full_model"
                => (optimizer.per_group_clipping /\ ~optimizer.full_model_clipping)

C5_Witness ==
    /\ pc = "done"
    /\ optimizer.full_model_clipping
    /\ calls = <<"torch.optim.AdamW">>

\* C6 as stated: every returned optimizer has exactly one of the two clippings.
C6_AsClaimed ==
    pc = "done" =>
        /\ optimizer.full_model_clipping \/ optimizer.per_group_clipping
        /\ ~(optimizer.full_model_clipping /\ optimizer.per_group_clipping)

\* C6 amended: the per-group clipping is applied exactly when the clip type is
\* not "full_model", the full-model wrapper exactly when clipping is enabled
\* with type "full_model" and a positive value; so with type "full_model" and
\* the flag off or the value not positive, neither is applied.
C6_ClippingByType ==
    pc = "done" =>
        /\ optimizer.per_group_clipping <=> cfg.CLIP_TYPE # "full_model"
        /\ optimizer.full_model_clipping <=>
              (cfg.CLIP_ENABLED /\ cfg.CLIP_TYPE = "full_model" /\ cfg.CLIP_VALUE > 0)
        /\ (~optimizer.per_group_clipping /\ ~optimizer.full_model_clipping) <=>
              (cfg.CLIP_TYPE = "full_model" /\ (~cfg.CLIP_ENABLED \/ cfg.CLIP_VALUE <= 0))

C6_Witness ==
    /\ pc = "done"
    /\ ~optimizer.per_group_clipping
    /\ ~optimizer.full_model_clipping
    /\ cfg.CLIP_ENABLED
    /\ cfg.CLIP_VALUE = 0

\* C10: the groups are the first occurrences of the trainable parameter objects
\* in iteration order, one parameter per group, each with the configured weight
\* decay, and the optimizer is given exactly these groups.
C10_GroupsInFirstSeenOrder ==
    /\ Len(params) = Cardinality(FirstSeen)
    /\ \A n \in 1..Len(params) :
          /\ params[n].params = <<Value(NthFirstSeen(n))>>
          /\ params[n].weight_decay = cfg.WEIGHT_DECAY
    /\ optimizer.class # None => optimizer.param_groups = params

C10_Witness ==
    /\ pc = "done"
    /\ Len(named) = 3
    /\ Value(1) = Value(3)
    /\ Len(params) = 2
    /\ params[1].params = <<Value(1)>>
    /\ params[2].params = <<Value(2)>>
    /\ params[1].lr = params[2].lr
    /\ params[1].weight_decay = params[2].weight_decay

(***************************************************************************)
(* Properties of the registrations (specification SpecRegister).           *)
(***************************************************************************)
\* C7: whatever the order of the eight calls and of the other registrations,
\* each of the eight names that has been registered resolves to the paths of
\* its own call with empty metadata, and the eight names are pairwise distinct.
C7_RegistrationOrderIndependent ==
    /\ \A r \in ran :
          /\ Registrations[r].name \in DOMAIN catalog
          /\ catalog[Registrations[r].name] =
                [json_file  |-> Registrations[r].json_file,
                 image_root |-> Registrations[r].image_root,
                 metadata   |-> {}]
    /\ Cardinality({ Registrations[r].name : r \in ran }) = Cardinality(ran)
    /\ \A r \in ran : Registrations[r].name \notin OtherNames

C7_Witness ==
    /\ ran = 1..8
    /\ Cardinality(DOMAIN catalog) = 8 + NumOther
    /\ \E name \in OtherNames :
          /\ name \in DOMAIN catalog
          /\ catalog[name].image_root = Registrations[1].image_root
          /\ catalog[name].metadata # {}

(***************************************************************************)
(* Properties of setup and main (specification SpecMain).                  *)
(***************************************************************************)
SetupOrder ==
    <<"get_cfg", "add_detr_config", "merge_from_file", "merge_from_list",
      "freeze", "default_setup">>

EvalOrder(isMain) ==
    <<"Trainer.build_model", "DetectionCheckpointer.resume_or_load", "Trainer.test">>
    \o (IF isMain THEN <<"verify_results">> ELSE <<>>)

TrainOrder == <<"Trainer", "trainer.resume_or_load", "trainer.train">>

IsPrefix(a, b) == Len(a) <= Len(b) /\ a = SubSeq(b, 1, Len(a))

\* the calls main makes after setup has returned
MainCalls == SubSeq(trace, Len(SetupOrder) + 1, Len(trace))

\* C8: in evaluation-only mode main builds the model, loads the weights, runs
\* the evaluation, verifies the results only on the main process and returns
\* the evaluation result, without a trainer; otherwise it constructs the
\* trainer, calls resume_or_load, trains and returns the result of train,
\* without any evaluation or verification.
C8_MainModesExclusive ==
    LET expected == IF args.eval_only THEN EvalOrder(env.is_main_process) ELSE TrainOrder
    IN  /\ IsPrefix(MainCalls, expected)
        /\ mpc = "done" =>
              /\ MainCalls = expected
              /\ result = IF args.eval_only THEN "res" ELSE "train_result"

C8_Witness ==
    /\ mpc = "done"
    /\ args.eval_only
    /\ ~env.is_main_process
    /\ result = "res"

OptPairs == 1..(Len(args.opts) \div 2)

\* the value of key k after the four layers: the last command-line pair for k,
\* else the file's value, else the extension's, else the default
Layered(k) ==
    LET at == { j \in OptPairs : args.opts[2 * j - 1] = k }
    IN  IF at # {}
        THEN args.opts[2 * (CHOOSE j \in at : \A i \in at : i <= j)]
        ELSE IF k \in DOMAIN args.config_file THEN args.config_file[k]
        ELSE IF k \in DOMAIN env.add_detr_config THEN env.add_detr_config[k]
        ELSE "default"

\* C9: setup calls get_cfg, add_detr_config, merge_from_file, merge_from_list,
\* freeze, default_setup in this order; the latest layer that sets a key wins;
\* the configuration is frozen after the last merge and before default_setup,
\* and from then on it keeps the layered value.
C9_LayeredThenFrozen ==
    /\ IF Len(trace) <= Len(SetupOrder)
       THEN IsPrefix(trace, SetupOrder)
       ELSE IsPrefix(SetupOrder, trace)
    /\ frozen <=> Len(trace) >= 5
    /\ Len(trace) >= 4 =>
          /\ DOMAIN mcfg = CfgKeys
          /\ \A k \in CfgKeys : mcfg[k] = Layered(k)

C9_Witness ==
    /\ mpc = "done"
    /\ frozen
    /\ \E k \in CfgKeys :
          /\ k \in DOMAIN env.add_detr_config
          /\ k \in DOMAIN args.config_file
          /\ Len(args.opts) = 4
          /\ args.opts[1] = k
          /\ args.opts[3] = k
          /\ args.opts[2] # args.opts[4]
          /\ args.config_file[k] # args.opts[4]
          /\ mcfg[k] = args.opts[4]

====
